---- MODULE Spec2Model ----
(***************************************************************************)
(* A model of p9admin's project administration code:                       *)
(*   src/p9admin/project.py      the library (quota reconcile, provision,  *)
(*                               decommission)                             *)
(*   src/p9admin/cli/project.py  the command-line handlers                 *)
(*                                                                         *)
(* The remote cloud platform is the only durable state.  Every library     *)
(* function is an operator over a "world" record [quota, calls]: the       *)
(* remote quota sets and the remote calls issued so far, in order.         *)
(***************************************************************************)
EXTENDS Integers, Sequences, FiniteSets, TLC

\* ------------------------------------------------------------------ bounds

\* Largest quota value of the model; quota sets start with values in -1..MaxQuota.
MaxQuota == 2

\* --------------------------------------------------------- program constants

\* The quota value that means "unlimited".
Unlimited == -1

\* ----------------------------------------------------------- value domains

\* The projects of the platform (keystone ids; the name equals the id here).
Projects == {"p1", "p2"}
\* The order in which client.projects() lists them.
ProjectList == <<"p1", "p2">>
\* Two of the enumerated quota kinds; every remote quota set has exactly these.
Kinds == {"cores", "ram"}
\* A name outside the enumerated quota kinds.
UnknownKind == "bogus"
QuotaNames == Kinds \cup {UnknownKind}
\* A project name that matches no project.
UnknownProject == "nobody"

\* Python's None, for an option that was not given: a quota name, a quota value.
NoName == ""
None == <<"None">>

\* ------------------------------------------------------ text <-> integers
\* Quota values arrive as text (a command-line option, a value of the
\* defaults file) and are converted by int().  Text is a sequence of characters.

DigitChars == <<"0", "1", "2", "3", "4", "5", "6", "7", "8", "9">>

IsDigit(c) == \E i \in 1..10 : DigitChars[i] = c

DigitVal(c) == (CHOOSE i \in 1..10 : DigitChars[i] = c) - 1

\* The decimal rendering of a natural number (str(n)).
RECURSIVE NatToText(_)
NatToText(n) ==
    IF n < 10 THEN <<DigitChars[n + 1]>>
    ELSE Append(NatToText(n \div 10), DigitChars[(n % 10) + 1])

IntToText(n) == IF n < 0 THEN <<"-">> \o NatToText(-n) ELSE NatToText(n)

\* Whether int(s) succeeds: an optional sign followed by at least one digit.
IsIntText(s) ==
    LET body == IF Len(s) > 0 /\ s[1] = "-" THEN Tail(s) ELSE s
    IN  /\ s # None
        /\ Len(body) > 0
        /\ \A i \in 1..Len(body) : IsDigit(body[i])

RECURSIVE DigitsVal(_)
DigitsVal(s) ==
    IF Len(s) = 0 THEN 0
    ELSE 10 * DigitsVal(SubSeq(s, 1, Len(s) - 1)) + DigitVal(s[Len(s)])

\* int(s) for a text that IsIntText accepts.
ParseInt(s) == IF s[1] = "-" THEN 0 - DigitsVal(Tail(s)) ELSE DigitsVal(s)

\* The integers a request may carry, and the texts of the model: the decimal
\* text of each, and two texts int() rejects.
RequestInts == (Unlimited - 1)..MaxQuota
BadTexts == {<<"x">>, <<"-">>}
Texts == {IntToText(n) : n \in RequestInts} \cup BadTexts
\* The texts a defaults file holds in the model.
DefaultTexts == {IntToText(n) : n \in {Unlimited, 0, MaxQuota}} \cup {<<"x">>}

\* The values a remote quota set holds to begin with: -1 or a non-negative integer.
ValidQuota == Unlimited..MaxQuota

\* ------------------------------------------------------------------ state

VARIABLES
    quota,      \* remote: project id -> (quota kind -> integer limit)
    environ,    \* whether OS_NOVA_URL is in the process environment
    last,       \* the last operation: its inputs, outcome and remote calls
    topo,       \* remote: the named project and its standard resources
    ens,        \* the process calling ensure_project: position and locals
    interfered, \* whether another operator has changed topo
    res,        \* remote: the resources scoped to the project being deleted
    del,        \* the process calling delete_project: position and locals
    tenants,    \* remote: the names of the projects that exist
    cmd,        \* the last p9-admin project delete command: arguments and outcome
    stats       \* the last get_stats call: what the services list and the result

quotaVars == <<quota, environ, last>>
ensureVars == <<topo, ens, interfered>>
deleteVars == <<res, del>>
commandVars == <<tenants, cmd>>
statsVars == <<stats>>

vars == <<quota, environ, last, topo, ens, interfered, res, del, tenants, cmd, stats>>

\* ----------------------------------------------------------- remote calls

Call(op, project, name, value) ==
    [op |-> op, project |-> project, name |-> name, value |-> value]

\* A keystone project object, and the bare id string of one.  Reading .id or
\* .name of a string raises AttributeError.
ProjectObj(p) == [type |-> "Project", id |-> p]
ProjectId(p) == [type |-> "str", id |-> p]

\* requests.get on the project's quota set.
get_quota(w, project_id) ==
    [w   |-> [w EXCEPT !.calls = Append(@, Call("GET quota", project_id, "", 0))],
     ret |-> w.quota[project_id]]

\* requests.put of one quota value.
_apply_quota(w, project_id, quota_name, quota_value) ==
    [w EXCEPT !.quota[project_id][quota_name] = quota_value,
              !.calls = Append(@, Call("PUT quota", project_id, quota_name, quota_value))]

\* ------------------------------------------------------- quota reconciler

Result(w, exc, ret) == [w |-> w, exc |-> exc, ret |-> ret]

\* reconcile with the "unlimited is always allowed" disjunct left out.
reconcile_no_unlimited(old_value, new_value, force) ==
    IF new_value = old_value THEN "NoOp"
    ELSE IF new_value > old_value \/ force THEN "Apply"
    ELSE "Refuse"

\* reconcile with the force override left out.
reconcile_no_force(old_value, new_value, force) ==
    IF new_value = old_value THEN "NoOp"
    ELSE IF new_value = Unlimited \/ new_value > old_value THEN "Apply"
    ELSE "Refuse"

\* The decision of verified_apply_quota once both values are integers.
reconcile(old_value, new_value, force) ==
    IF new_value = old_value THEN "NoOp"
    ELSE IF new_value = Unlimited \/ new_value > old_value \/ force THEN "Apply"
    ELSE "Refuse"

verified_apply_quota(w, project, quota_name, quota_value, force) ==
    IF project.type # "Project" THEN Result(w, "AttributeError", "")
    ELSE
    LET g == get_quota(w, project.id) IN
    IF ~IsIntText(quota_value) THEN Result(g.w, "ValueError", "")
    ELSE IF quota_name \notin DOMAIN g.ret THEN Result(g.w, "KeyError", "")
    ELSE
    LET new_value == ParseInt(quota_value)
        old_value == g.ret[quota_name]
        action    == reconcile(old_value, new_value, force)
    IN  IF action = "NoOp" THEN Result(g.w, "", "None")
        ELSE IF action = "Apply"
             THEN Result(_apply_quota(g.w, project.id, quota_name, new_value),
                         "", "quota_set")
        ELSE Result(g.w, "RequiresForceError", "")

\* The defaults file: a sequence of [key, value] with distinct keys.
DefaultsFiles ==
    {c \in UNION {[1..n -> [key : QuotaNames, value : DefaultTexts]] :
                        n \in 0..Cardinality(Kinds)} :
        \A i, j \in 1..Len(c) : i # j => c[i].key # c[j].key}

RECURSIVE defaults_loop(_, _, _, _)
defaults_loop(w, project, config, i) ==
    IF i > Len(config) THEN Result(w, "", "None")
    ELSE IF project.type # "Project" THEN Result(w, "AttributeError", "")
    ELSE
    LET r == verified_apply_quota(w, project, config[i].key, config[i].value, FALSE)
    IN  IF r.exc \in {"", "RequiresForceError"}
        THEN defaults_loop(r.w, project, config, i + 1)
        ELSE Result(r.w, r.exc, "")

\* The defaults loop without its except clause: a refusal ends the loop.
RECURSIVE defaults_loop_uncaught(_, _, _, _)
defaults_loop_uncaught(w, project, config, i) ==
    IF i > Len(config) THEN Result(w, "", "None")
    ELSE IF project.type # "Project" THEN Result(w, "AttributeError", "")
    ELSE
    LET r == verified_apply_quota(w, project, config[i].key, config[i].value, FALSE)
    IN  IF r.exc = ""
        THEN defaults_loop_uncaught(r.w, project, config, i + 1)
        ELSE Result(r.w, r.exc, "")

verified_apply_quota_defaults_uncaught(w, project, config) ==
    defaults_loop_uncaught(w, project, config, 1)

verified_apply_quota_defaults(w, project, config) ==
    defaults_loop(w, project, config, 1)

\* ------------------------------------------------------- client facade
\* p9admin.OpenStackClient and p9admin.validators are not part of the source
\* at hand; what the handlers use of them is modelled from the specification.

NotFound == [type |-> "NotFound", id |-> ""]

\* client.projects(): lists every project of the platform.
client_projects(w) ==
    [w   |-> [w EXCEPT !.calls = Append(@, Call("list projects", "", "", 0))],
     ret |-> ProjectList]

\* client.project_by_name(name): looks one project up.
client_project_by_name(w, project_name) ==
    [w   |-> [w EXCEPT !.calls = Append(@, Call("find project", project_name, "", 0))],
     ret |-> IF project_name \in Projects THEN ProjectObj(project_name) ELSE NotFound]

\* validators.quota_name: the name is one of the enumerated quota kinds.
validators_quota_name(quota_name) == quota_name \in Kinds

\* validators.quota_value: the value is an integer, -1 or non-negative.
validators_quota_value(quota_name, quota_value) ==
    IsIntText(quota_value) /\ ParseInt(quota_value) >= Unlimited

\* ------------------------------------------------------- command handlers
\* Each handler returns Result(world, exc, ret): exc is "" when the command ends
\* normally (also by sys.exit()), "ConfigurationError", "ValidationError" or
\* "UsageError" for sys.exit(message), or the name of an uncaught exception.

RECURSIVE all_defaults_loop(_, _, _, _)
all_defaults_loop(w, projects, config, i) ==
    IF i > Len(projects) THEN Result(w, "", "exit")
    ELSE
    LET r == verified_apply_quota_defaults(w, ProjectObj(projects[i]), config)
    IN  IF r.exc = "" THEN all_defaults_loop(r.w, projects, config, i + 1)
        ELSE Result(r.w, r.exc, "")

RECURSIVE all_loop(_, _, _, _, _)
all_loop(w, projects, quota_name, quota_value, i) ==
    IF i > Len(projects) THEN Result(w, "", "None")
    ELSE
    LET r == verified_apply_quota(w, ProjectObj(projects[i]), quota_name,
                                  quota_value, FALSE)
    IN  IF r.exc \in {"", "RequiresForceError"}
        THEN all_loop(r.w, projects, quota_name, quota_value, i + 1)
        ELSE Result(r.w, r.exc, "")

\* apply-quota-all.  The handler receives force and never reads it.
apply_quota_all(w, env, quota_name, quota_value, force, defaults, config) ==
    LET l == client_projects(w) IN
    IF ~env THEN Result(l.w, "ConfigurationError", "")
    ELSE IF defaults THEN all_defaults_loop(l.w, l.ret, config, 1)
    ELSE IF ~validators_quota_name(quota_name) THEN Result(l.w, "ValidationError", "")
    ELSE IF ~validators_quota_value(quota_name, quota_value)
         THEN Result(l.w, "ValidationError", "")
    ELSE all_loop(l.w, l.ret, quota_name, quota_value, 1)

\* apply-quota handing over the project object and going on after the logged
\* refusal with quotas = None: the refusal is reported and the command ends well.
apply_quota_refusal_logged(w, env, project_name, quota_name, quota_value, defaults, config) ==
    IF ~env THEN Result(w, "ConfigurationError", "")
    ELSE
    LET f == client_project_by_name(w, project_name) IN
    IF f.ret = NotFound THEN Result(f.w, "NotFound", "")
    ELSE IF defaults THEN
        IF quota_name # NoName \/ quota_value # None
        THEN Result(f.w, "UsageError", "")
        ELSE LET r == verified_apply_quota_defaults(f.w, f.ret, config)
             IN  IF r.exc = "" THEN Result(r.w, "", "exit") ELSE r
    ELSE IF ~validators_quota_name(quota_name) THEN Result(f.w, "ValidationError", "")
    ELSE IF ~validators_quota_value(quota_name, quota_value)
         THEN Result(f.w, "ValidationError", "")
    ELSE
    LET r == verified_apply_quota(f.w, f.ret, quota_name, quota_value, FALSE)
    IN  IF r.exc = "RequiresForceError" THEN Result(r.w, "", "None")
        ELSE IF r.exc # "" THEN r
        ELSE Result(r.w, "", IF r.ret = "quota_set" THEN "printed" ELSE "None")

\* apply-quota (line 154 read without its stray closing parenthesis).  It hands
\* project.id, a string, to the library where a project object is expected.
apply_quota(w, env, project_name, quota_name, quota_value, defaults, config) ==
    IF ~env THEN Result(w, "ConfigurationError", "")
    ELSE
    LET f == client_project_by_name(w, project_name) IN
    IF f.ret = NotFound THEN Result(f.w, "NotFound", "")
    ELSE IF defaults THEN
        IF quota_name # NoName \/ quota_value # None
        THEN Result(f.w, "UsageError", "")
        ELSE LET r == verified_apply_quota_defaults(f.w, ProjectId(f.ret.id), config)
             IN  IF r.exc = "" THEN Result(r.w, "", "exit") ELSE r
    ELSE IF ~validators_quota_name(quota_name) THEN Result(f.w, "ValidationError", "")
    ELSE IF ~validators_quota_value(quota_name, quota_value)
         THEN Result(f.w, "ValidationError", "")
    ELSE
    LET r == verified_apply_quota(f.w, ProjectId(f.ret.id), quota_name,
                                  quota_value, FALSE)
    IN  IF r.exc = "RequiresForceError"
        THEN Result(r.w, "NameError", "")   \* logged; then `quotas` is unbound
        ELSE IF r.exc # "" THEN r
        ELSE Result(r.w, "", IF r.ret = "quota_set" THEN "printed" ELSE "None")

\* get-quota.
cli_get_quota(w, env, project_name) ==
    IF ~env THEN Result(w, "ConfigurationError", "")
    ELSE
    LET f == client_project_by_name(w, project_name) IN
    IF f.ret = NotFound THEN Result(f.w, "NotFound", "")
    ELSE LET g == get_quota(f.w, f.ret.id) IN Result(g.w, "", "printed")

\* ------------------------------------------------------ project provisioner
\* ensure_project(client, name, assume_complete) for one project name.  The
\* remote platform holds, for that name: the project (by its id) and whether
\* network "network1", subnet "subnet0" inside it, router "router0", security
\* group "default" and the external-access rule inside it exist.

\* Project ids: none, the id of a project that was there to begin with, and the
\* ids keystone gives a project created by ensure_project or by another operator.
NoProject == "none"
IdBefore == "id-before"
IdEnsure == "id-ensure"
IdOther == "id-other"

NoTopology ==
    [proj |-> NoProject, net |-> FALSE, sub |-> FALSE, rtr |-> "none",
     sg |-> FALSE, rule |-> FALSE]

\* The sub-resources hang together: a subnet lies in its network, a rule in its
\* group, an attached router on the subnet, and all of them in the project.
Consistent(t) ==
    /\ t.proj = NoProject => (~t.net /\ t.rtr = "none" /\ ~t.sg)
    /\ t.sub => t.net
    /\ t.rule => t.sg
    /\ t.rtr = "attached" => t.sub

Topologies ==
    {t \in [proj : {NoProject, IdBefore}, net : BOOLEAN, sub : BOOLEAN,
            rtr : {"none", "attached", "detached"}, sg : BOOLEAN, rule : BOOLEAN] :
        Consistent(t)}

NoPrev == [done |-> FALSE, ret |-> NoProject, assume_complete |-> FALSE,
           new_project |-> FALSE]

EnsureIdle ==
    [pc |-> "idle", n |-> 0, assume_complete |-> FALSE, project |-> NoProject,
     new_project |-> FALSE, new_network |-> FALSE, calls |-> <<>>,
     ret |-> NoProject, exc |-> "", prev |-> NoPrev]

\* Where ensure_project goes after the project step (lines 50-56) and after the
\* network step (lines 59-65): a find is made only for what was not just created.
after_project(new_project) == IF new_project THEN "create_network" ELSE "find_network"
after_network(new_network) == IF new_network THEN "create_subnet" ELSE "find_subnet"
after_subnet(new_project) == IF new_project THEN "create_router" ELSE "find_router"
after_security_group(new_project) ==
    IF new_project THEN "create_security_group_rule" ELSE "find_security_group_rule"

Issue(e, call) == [e EXCEPT !.calls = Append(@, call)]

\* ---------------------------------------------------- project decommissioner
\* delete_project(client, name) for one project.  The remote platform holds the
\* project and the resources scoped to it, each known by its id.

ServerOrder == <<"server1", "server2">>
VolumeOrder == <<"volume1">>
RouterOrder == <<"routerA", "routerB">>
PortOrder == <<"portA1", "portA2", "portB1">>
NetworkOrder == <<"netA", "netB">>
SubnetOrder == <<"subnetA1", "subnetB1">>
GroupOrder == <<"default", "extra">>

Range(seq) == {seq[i] : i \in 1..Len(seq)}

\* The router a port is attached to (port.device_id), the network of a subnet.
RouterOf(port) == IF port \in {"portA1", "portA2"} THEN "routerA" ELSE "routerB"
NetworkOf(subnet) == IF subnet = "subnetA1" THEN "netA" ELSE "netB"

NoResources ==
    [proj |-> FALSE, servers |-> {}, vol_endpoint |-> FALSE, volumes |-> {},
     routers |-> {}, ports |-> {}, networks |-> {}, subnets |-> {}, groups |-> {}]

\* The remote states a decommissioning may meet: ports hang on routers that
\* exist, subnets lie in networks that exist, volumes need the volume service.
ResourceStates ==
    {r \in [proj : BOOLEAN, servers : SUBSET Range(ServerOrder),
            vol_endpoint : BOOLEAN, volumes : SUBSET Range(VolumeOrder),
            routers : SUBSET Range(RouterOrder), ports : SUBSET Range(PortOrder),
            networks : SUBSET Range(NetworkOrder),
            subnets : SUBSET Range(SubnetOrder),
            groups : SUBSET Range(GroupOrder)] :
        /\ \A port \in r.ports : RouterOf(port) \in r.routers
        /\ \A subnet \in r.subnets : NetworkOf(subnet) \in r.networks
        /\ ~r.vol_endpoint => r.volumes = {}}

\* A listing call: the ids that exist, in the order the service lists them.
Listing(order, present) == SelectSeq(order, LAMBDA id : id \in present)

DeleteIdle ==
    [pc |-> "idle", run |-> 1, iter |-> <<>>, inner |-> <<>>, current |-> "",
     security_groups |-> <<>>, calls |-> <<>>, exc |-> ""]

Did(d, op, id) == [d EXCEPT !.calls = Append(@, [op |-> op, id |-> id])]

\* Where delete_project goes once a loop has nothing left (lines 131, 138, 148, 160).
after_servers == "list_volumes"
after_volumes == "list_routers"
after_routers == "list_networks"
after_networks == "list_security_groups"
\* The position after an outer listing: into the loop, or past an empty one.
enter_loop(items, loop, after) == IF Len(items) = 0 THEN after ELSE loop

\* The captured groups deleted first and the project never: lines 162 and 165 swapped.
after_list_security_groups_groups_first(groups) ==
    enter_loop(groups, "security_groups", "delete_project")

\* The run ending with the project's deletion: the loop of lines 165-167 left out.
after_delete_project_no_groups(groups) == "done"

\* Lines 160-165: the groups are listed, the project deleted, then the groups.
after_list_security_groups(groups) == "delete_project"
after_delete_project(groups) == enter_loop(groups, "security_groups", "done")

\* ------------------------------------------------ the other operations
\* No delete command has run; no get_stats call has been made.
NoCommand == [op |-> "", names |-> <<>>, pre |-> {}, exc |-> "", calls |-> <<>>]
NoStats == [op |-> "", servers |-> <<>>, volumes |-> <<>>, vol_endpoint |-> TRUE,
            ret |-> <<>>]

\* p9-admin project delete NAME [NAME ...].  delete_project as its caller sees
\* it: find_project (project.py line 124) raises NotFound for a name that no
\* project has; otherwise the run ends with the project and what it owns removed.
delete_project(w, name) ==
    LET called == [w EXCEPT !.calls = Append(@, name)] IN
    IF name \notin w.tenants THEN [w |-> called, exc |-> "NotFound"]
    ELSE [w |-> [called EXCEPT !.tenants = @ \ {name}], exc |-> ""]

\* cli/project.py lines 203-204: the loop over the names, with no try around
\* the call, so an exception of delete_project ends the command.
RECURSIVE delete_loop(_, _, _)
delete_loop(w, names, i) ==
    IF i > Len(names) THEN [w |-> w, exc |-> ""]
    ELSE LET r == delete_project(w, names[i]) IN
         IF r.exc # "" THEN r ELSE delete_loop(r.w, names, i + 1)

delete(w, names) == delete_loop(w, names, 1)

\* get_stats(client, project), project.py lines 252-284.  A server is known by
\* its power_state, a volume by its size and status.
PowerStates == {0, 1, 4}
VolumeStatuses == {"in-use", "available"}

\* Python's sum, zip(*rows) for rows of one width, and map(sum, columns).
RECURSIVE sum(_)
sum(seq) == IF seq = <<>> THEN 0 ELSE Head(seq) + sum(Tail(seq))
zip(rows) == [c \in 1..Len(rows[1]) |-> [r \in 1..Len(rows) |-> rows[r][c]]]
map_sum(columns) == [c \in 1..Len(columns) |-> sum(columns[c])]

\* Lines 261-268: the rows [1, count_powered] after the row of zeros.
server_rows(servers) ==
    <<(<<0, 0>>)>> \o [i \in 1..Len(servers) |->
                        <<1, IF servers[i].power_state > 0 THEN 1 ELSE 0>>]

\* volume_rows taking every volume for one in use.
volume_rows_all_inuse(volumes) ==
    <<(<<0, 0, 0, 0>>)>> \o [i \in 1..Len(volumes) |->
                              <<1, volumes[i].size, 1, volumes[i].size>>]

\* Lines 270-280: the rows (1, size, count_inuse, size_inuse) after the zeros.
volume_rows(volumes) ==
    <<(<<0, 0, 0, 0>>)>> \o [i \in 1..Len(volumes) |->
        IF volumes[i].status = "in-use"
        THEN <<1, volumes[i].size, 1, volumes[i].size>>
        ELSE <<1, volumes[i].size, 0, 0>>]

\* Lines 281-284: without a volume endpoint the listing raises EndpointNotFound,
\* which is logged, and the volume rows stay at the row of zeros.
get_stats(servers, volumes, vol_endpoint) ==
    map_sum(zip(server_rows(servers)))
        \o map_sum(zip(IF vol_endpoint THEN volume_rows(volumes)
                                       ELSE <<(<<0, 0, 0, 0>>)>>))

\* --------------------------------------------------------------- actions

World == [quota |-> quota, calls |-> <<>>]

\* No operation is in progress or has returned: the caller is about to make one.
Idle ==
    [op |-> "", project |-> "", name |-> NoName, value |-> None, force |-> FALSE,
     defaults |-> FALSE, config |-> <<>>, pre |-> <<>>, exc |-> "", ret |-> "",
     calls |-> <<>>]

Last(op, project, name, value, force, defaults, config, r) ==
    [op |-> op, project |-> project, name |-> name, value |-> value,
     force |-> force, defaults |-> defaults, config |-> config, pre |-> quota,
     exc |-> r.exc, ret |-> r.ret, calls |-> r.w.calls]

InitQuota ==
    /\ quota \in [Projects -> [Kinds -> ValidQuota]]
    /\ environ \in BOOLEAN
    /\ last = Idle
    /\ topo = NoTopology
    /\ ens = EnsureIdle
    /\ interfered = FALSE
    /\ res = NoResources
    /\ del = DeleteIdle
    /\ tenants = {}
    /\ cmd = NoCommand
    /\ stats = NoStats

\* A caller of the library reconciles one quota of one project.
VerifiedApplyQuota ==
    /\ last.op = ""
    /\ \E p \in Projects, name \in QuotaNames, value \in Texts, force \in BOOLEAN :
        LET r == verified_apply_quota(World, ProjectObj(p), name, value, force)
        IN  /\ quota' = r.w.quota
            /\ last' = Last("verified_apply_quota", p, name, value, force, FALSE, <<>>, r)
    /\ UNCHANGED <<environ, ensureVars, deleteVars, commandVars, statsVars>>

\* A caller of the library applies the defaults file to one project.
VerifiedApplyQuotaDefaults ==
    /\ last.op = ""
    /\ \E p \in Projects, config \in DefaultsFiles :
        LET r == verified_apply_quota_defaults(World, ProjectObj(p), config)
        IN  /\ quota' = r.w.quota
            /\ last' = Last("verified_apply_quota_defaults", p, NoName, None, FALSE,
                            TRUE, config, r)
    /\ UNCHANGED <<environ, ensureVars, deleteVars, commandVars, statsVars>>

\* The call has returned (or raised) and its frame is gone; the remote state stays.
Return ==
    /\ last.op \in {"verified_apply_quota", "verified_apply_quota_defaults"}
    /\ last' = Idle
    /\ UNCHANGED <<quota, environ, ensureVars, deleteVars, commandVars, statsVars>>

NextReconcile == VerifiedApplyQuota \/ VerifiedApplyQuotaDefaults \/ Return

\* The library is called from a process that has OS_NOVA_URL set.
InitReconcile == InitQuota /\ environ = TRUE

SpecReconcile == InitReconcile /\ [][NextReconcile]_vars

\* The options a command line may carry.
NameOptions == QuotaNames \cup {NoName}
ValueOptions == Texts \cup {None}
ProjectNames == Projects \cup {UnknownProject}

\* p9-admin project apply-quota-all.  With --defaults the handler reads neither
\* the name nor the value, so they are left out.
ApplyQuotaAll ==
    /\ last.op = ""
    /\ \E force \in BOOLEAN :
        \/ \E name \in NameOptions, value \in ValueOptions :
              LET r == apply_quota_all(World, environ, name, value, force, FALSE, <<>>)
              IN  /\ quota' = r.w.quota
                  /\ last' = Last("apply-quota-all", "", name, value, force, FALSE, <<>>, r)
        \/ \E config \in DefaultsFiles :
              LET r == apply_quota_all(World, environ, NoName, None, force, TRUE, config)
              IN  /\ quota' = r.w.quota
                  /\ last' = Last("apply-quota-all", "", NoName, None, force, TRUE, config, r)
    /\ UNCHANGED <<environ, ensureVars, deleteVars, commandVars, statsVars>>

\* p9-admin project apply-quota.
ApplyQuota ==
    /\ last.op = ""
    /\ \E project_name \in ProjectNames :
        \/ \E name \in NameOptions, value \in ValueOptions :
              LET r == apply_quota(World, environ, project_name, name, value, FALSE, <<>>)
              IN  /\ quota' = r.w.quota
                  /\ last' = Last("apply-quota", project_name, name, value, FALSE,
                                  FALSE, <<>>, r)
        \/ \E config \in DefaultsFiles, name \in {NoName, "cores"} :
              LET r == apply_quota(World, environ, project_name, name, None, TRUE, config)
              IN  /\ quota' = r.w.quota
                  /\ last' = Last("apply-quota", project_name, name, None, FALSE,
                                  TRUE, config, r)
    /\ UNCHANGED <<environ, ensureVars, deleteVars, commandVars, statsVars>>

\* p9-admin project get-quota.
GetQuota ==
    /\ last.op = ""
    /\ \E project_name \in ProjectNames :
        LET r == cli_get_quota(World, environ, project_name)
        IN  /\ quota' = r.w.quota
            /\ last' = Last("get-quota", project_name, NoName, None, FALSE, FALSE, <<>>, r)
    /\ UNCHANGED <<environ, ensureVars, deleteVars, commandVars, statsVars>>

\* The command's process has ended; the remote state stays.
Exit ==
    /\ last.op \in {"apply-quota-all", "apply-quota", "get-quota"}
    /\ last' = Idle
    /\ UNCHANGED <<quota, environ, ensureVars, deleteVars, commandVars, statsVars>>

NextCli == ApplyQuotaAll \/ ApplyQuota \/ GetQuota \/ Exit

SpecCli == InitQuota /\ [][NextCli]_vars

\* ------------------------------------------------- ensure_project, by step

\* Largest number of ensure_project calls in one behaviour.
MaxCalls == 2

\* A caller enters ensure_project, in shallow or deep mode.
EnsureStart ==
    /\ ens.pc \in {"idle", "done", "failed"}
    /\ ens.n < MaxCalls
    /\ \E assume_complete \in BOOLEAN :
        ens' = [EnsureIdle EXCEPT
                  !.pc = "find_project", !.n = ens.n + 1,
                  !.assume_complete = assume_complete,
                  !.prev = IF ens.n = 0 THEN NoPrev
                           ELSE [done |-> ens.pc = "done", ret |-> ens.ret,
                                 assume_complete |-> ens.assume_complete,
                                 new_project |-> ens.new_project]]
    /\ UNCHANGED <<topo, interfered, quotaVars, deleteVars, commandVars, statsVars>>

\* FindProject without the test of line 42: a found project is always examined.
FindProject_deep ==
    /\ ens.pc = "find_project"
    /\ LET e == Issue(ens, "find_project") IN
        IF topo.proj # NoProject
        THEN ens' = [e EXCEPT !.project = topo.proj, !.pc = after_project(FALSE)]
        ELSE ens' = [e EXCEPT !.pc = "create_project"]
    /\ UNCHANGED <<topo, interfered, quotaVars, deleteVars, commandVars, statsVars>>

\* Lines 38-44: keystone projects.find(name); found and shallow returns at once.
FindProject ==
    /\ ens.pc = "find_project"
    /\ LET e == Issue(ens, "find_project") IN
        IF topo.proj # NoProject
        THEN ens' = IF ens.assume_complete
                    THEN [e EXCEPT !.project = topo.proj, !.pc = "done",
                                   !.ret = topo.proj]
                    ELSE [e EXCEPT !.project = topo.proj,
                                   !.pc = after_project(FALSE)]
        ELSE ens' = [e EXCEPT !.pc = "create_project"]
    /\ UNCHANGED <<topo, interfered, quotaVars, deleteVars, commandVars, statsVars>>

\* Lines 45-47: keystone projects.create(name, domain).  Keystone refuses a name
\* that is taken with Conflict, which nothing here catches.  The platform may
\* create the project's "default" security group by itself.
CreateProject ==
    /\ ens.pc = "create_project"
    /\ LET e == Issue(ens, "create_project") IN
        IF topo.proj # NoProject
        THEN /\ ens' = [e EXCEPT !.pc = "failed", !.exc = "Conflict"]
             /\ UNCHANGED topo
        ELSE /\ ens' = [e EXCEPT !.project = IdEnsure, !.new_project = TRUE,
                                 !.pc = after_project(TRUE)]
             /\ \E auto \in BOOLEAN :
                   topo' = [topo EXCEPT !.proj = IdEnsure, !.sg = auto]
    /\ UNCHANGED <<interfered, quotaVars, deleteVars, commandVars, statsVars>>

\* FindNetwork with the result of the lookup ignored: the network is created anew.
FindNetwork_ignored ==
    /\ ens.pc = "find_network"
    /\ ens' = [Issue(ens, "find_network") EXCEPT
                  !.new_network = FALSE, !.pc = "create_network"]
    /\ UNCHANGED <<topo, interfered, quotaVars, deleteVars, commandVars, statsVars>>

\* Lines 51-53.
FindNetwork ==
    /\ ens.pc = "find_network"
    /\ ens' = [Issue(ens, "find_network") EXCEPT
                  !.new_network = FALSE,
                  !.pc = IF topo.net THEN after_network(FALSE) ELSE "create_network"]
    /\ UNCHANGED <<topo, interfered, quotaVars, deleteVars, commandVars, statsVars>>

\* Lines 54-56.  The facade's creators return what exists already.
CreateNetwork ==
    /\ ens.pc = "create_network"
    /\ ens' = [Issue(ens, "create_network") EXCEPT
                  !.new_network = TRUE, !.pc = after_network(TRUE)]
    /\ topo' = [topo EXCEPT !.net = TRUE]
    /\ UNCHANGED <<interfered, quotaVars, deleteVars, commandVars, statsVars>>

\* Lines 60-62.
FindSubnet ==
    /\ ens.pc = "find_subnet"
    /\ ens' = [Issue(ens, "find_subnet") EXCEPT
                  !.pc = IF topo.sub THEN after_subnet(ens.new_project)
                         ELSE "create_subnet"]
    /\ UNCHANGED <<topo, interfered, quotaVars, deleteVars, commandVars, statsVars>>

\* Lines 63-65.
CreateSubnet ==
    /\ ens.pc = "create_subnet"
    /\ ens' = [Issue(ens, "create_subnet") EXCEPT !.pc = after_subnet(ens.new_project)]
    /\ topo' = [topo EXCEPT !.sub = TRUE]
    /\ UNCHANGED <<interfered, quotaVars, deleteVars, commandVars, statsVars>>

\* Lines 72-73.  A router that exists is taken as it is.
FindRouter ==
    /\ ens.pc = "find_router"
    /\ ens' = [Issue(ens, "find_router") EXCEPT
                  !.pc = IF topo.rtr # "none" THEN "find_security_group"
                         ELSE "create_router"]
    /\ UNCHANGED <<topo, interfered, quotaVars, deleteVars, commandVars, statsVars>>

\* Lines 74-76: create_router(project, network, subnet, name) attaches it.
CreateRouter ==
    /\ ens.pc = "create_router"
    /\ ens' = [Issue(ens, "create_router") EXCEPT !.pc = "find_security_group"]
    /\ topo' = [topo EXCEPT !.rtr = IF @ = "none" THEN "attached" ELSE @]
    /\ UNCHANGED <<interfered, quotaVars, deleteVars, commandVars, statsVars>>

\* Line 79: the security group is always looked up.
FindSecurityGroup ==
    /\ ens.pc = "find_security_group"
    /\ ens' = [Issue(ens, "find_security_group") EXCEPT
                  !.pc = IF topo.sg THEN after_security_group(ens.new_project)
                         ELSE "create_security_group"]
    /\ UNCHANGED <<topo, interfered, quotaVars, deleteVars, commandVars, statsVars>>

\* Lines 80-81.
CreateSecurityGroup ==
    /\ ens.pc = "create_security_group"
    /\ ens' = [Issue(ens, "create_security_group") EXCEPT
                  !.pc = after_security_group(ens.new_project)]
    /\ topo' = [topo EXCEPT !.sg = TRUE]
    /\ UNCHANGED <<interfered, quotaVars, deleteVars, commandVars, statsVars>>

\* Lines 86-87.
FindSecurityGroupRule ==
    /\ ens.pc = "find_security_group_rule"
    /\ ens' = [Issue(ens, "find_security_group_rule") EXCEPT
                  !.pc = IF topo.rule THEN "return"
                         ELSE "create_security_group_rule"]
    /\ UNCHANGED <<topo, interfered, quotaVars, deleteVars, commandVars, statsVars>>

\* Lines 88-89.
CreateSecurityGroupRule ==
    /\ ens.pc = "create_security_group_rule"
    /\ ens' = [Issue(ens, "create_security_group_rule") EXCEPT !.pc = "return"]
    /\ topo' = [topo EXCEPT !.rule = TRUE]
    /\ UNCHANGED <<interfered, quotaVars, deleteVars, commandVars, statsVars>>

\* Line 91.
EnsureReturn ==
    /\ ens.pc = "return"
    /\ ens' = [ens EXCEPT !.pc = "done", !.ret = ens.project]
    /\ UNCHANGED <<topo, interfered, quotaVars, deleteVars, commandVars, statsVars>>

\* Another operator creates one of the same resources.
OtherCreates ==
    /\ \/ /\ topo.proj = NoProject
          /\ \E auto \in BOOLEAN : topo' = [topo EXCEPT !.proj = IdOther, !.sg = auto]
       \/ /\ topo.proj # NoProject /\ ~topo.net
          /\ topo' = [topo EXCEPT !.net = TRUE]
       \/ /\ topo.net /\ ~topo.sub
          /\ topo' = [topo EXCEPT !.sub = TRUE]
       \/ /\ topo.proj # NoProject /\ topo.rtr = "none"
          /\ topo' = [topo EXCEPT !.rtr = IF topo.sub THEN "attached" ELSE "detached"]
       \/ /\ topo.proj # NoProject /\ ~topo.sg
          /\ topo' = [topo EXCEPT !.sg = TRUE]
       \/ /\ topo.sg /\ ~topo.rule
          /\ topo' = [topo EXCEPT !.rule = TRUE]
    /\ interfered' = TRUE
    /\ UNCHANGED <<ens, quotaVars, deleteVars, commandVars, statsVars>>

InitEnsure ==
    /\ topo \in Topologies
    /\ ens = EnsureIdle
    /\ interfered = FALSE
    /\ quota = [p \in Projects |-> [k \in Kinds |-> Unlimited]]
    /\ environ = TRUE
    /\ last = Idle
    /\ res = NoResources
    /\ del = DeleteIdle
    /\ tenants = {}
    /\ cmd = NoCommand
    /\ stats = NoStats

NextEnsure ==
    \/ EnsureStart \/ FindProject \/ CreateProject
    \/ FindNetwork \/ CreateNetwork \/ FindSubnet \/ CreateSubnet
    \/ FindRouter \/ CreateRouter
    \/ FindSecurityGroup \/ CreateSecurityGroup
    \/ FindSecurityGroupRule \/ CreateSecurityGroupRule
    \/ EnsureReturn \/ OtherCreates

SpecEnsure == InitEnsure /\ [][NextEnsure]_vars

\* -------------------------------------------------- delete_project, by step

\* A caller enters delete_project.
DeleteStart ==
    /\ del.pc = "idle"
    /\ del' = [DeleteIdle EXCEPT !.pc = "find_project"]
    /\ UNCHANGED <<res, quotaVars, ensureVars, commandVars, statsVars>>

\* Line 124: client.find_project(name) fails with NotFound when none matches.
DeleteFindProject ==
    /\ del.pc = "find_project"
    /\ del' = IF res.proj THEN [del EXCEPT !.pc = "list_servers"]
               ELSE [del EXCEPT !.pc = "failed", !.exc = "NotFound"]
    /\ UNCHANGED <<res, quotaVars, ensureVars, commandVars, statsVars>>

\* Line 127: client.servers(project_id).
ListServers ==
    /\ del.pc = "list_servers"
    /\ LET items == Listing(ServerOrder, res.servers) IN
        del' = [del EXCEPT !.iter = items,
                           !.pc = enter_loop(items, "servers", after_servers)]
    /\ UNCHANGED <<res, quotaVars, ensureVars, commandVars, statsVars>>

\* Line 128: compute.delete_server(server, force=True, ignore_missing=True).
DeleteServer ==
    /\ del.pc = "servers"
    /\ LET server == Head(del.iter) IN
        /\ res' = [res EXCEPT !.servers = @ \ {server}]
        /\ del' = [Did(del, "delete_server", server) EXCEPT
                      !.iter = Tail(@),
                      !.pc = enter_loop(Tail(del.iter), "servers", after_servers)]
    /\ UNCHANGED <<quotaVars, ensureVars, commandVars, statsVars>>

\* ListVolumes without the except clause of line 135: EndpointNotFound gets out.
ListVolumes_uncaught ==
    /\ del.pc = "list_volumes"
    /\ IF res.vol_endpoint
       THEN LET items == Listing(VolumeOrder, res.volumes) IN
            del' = [del EXCEPT !.iter = items,
                               !.pc = enter_loop(items, "volumes", after_volumes)]
       ELSE del' = [del EXCEPT !.pc = "failed", !.exc = "EndpointNotFound"]
    /\ UNCHANGED <<res, quotaVars, ensureVars, commandVars, statsVars>>

\* Lines 131-136: client.volumes(project_id); no volume endpoint is only logged.
ListVolumes ==
    /\ del.pc = "list_volumes"
    /\ LET items == IF res.vol_endpoint THEN Listing(VolumeOrder, res.volumes)
                     ELSE <<>> IN
        del' = [del EXCEPT !.iter = items,
                           !.pc = enter_loop(items, "volumes", after_volumes)]
    /\ UNCHANGED <<res, quotaVars, ensureVars, commandVars, statsVars>>

\* Line 133: block_storage.delete_volume(volume, ignore_missing=True).
DeleteVolume ==
    /\ del.pc = "volumes"
    /\ LET volume == Head(del.iter) IN
        /\ res' = [res EXCEPT !.volumes = @ \ {volume}]
        /\ del' = [Did(del, "delete_volume", volume) EXCEPT
                      !.iter = Tail(@),
                      !.pc = enter_loop(Tail(del.iter), "volumes", after_volumes)]
    /\ UNCHANGED <<quotaVars, ensureVars, commandVars, statsVars>>

\* Line 139: network.routers(project_id).
ListRouters ==
    /\ del.pc = "list_routers"
    /\ LET items == Listing(RouterOrder, res.routers) IN
        del' = [del EXCEPT !.iter = items,
                           !.pc = enter_loop(items, "list_ports", after_routers)]
    /\ UNCHANGED <<res, quotaVars, ensureVars, commandVars, statsVars>>

\* Line 142: network.ports(device_id=router.id) for the next router.
ListPorts ==
    /\ del.pc = "list_ports"
    /\ LET router == Head(del.iter)
           items == Listing(PortOrder, {port \in res.ports : RouterOf(port) = router})
       IN  del' = [del EXCEPT !.current = router, !.inner = items,
                              !.pc = enter_loop(items, "ports", "delete_router")]
    /\ UNCHANGED <<res, quotaVars, ensureVars, commandVars, statsVars>>

\* Line 143: network.remove_interface_from_router(router, port_id).  The call
\* has no ignore_missing and no try: a port that is gone is NotFound.
RemoveInterface ==
    /\ del.pc = "ports"
    /\ LET port == Head(del.inner) IN
        IF port \in res.ports
        THEN /\ res' = [res EXCEPT !.ports = @ \ {port}]
             /\ del' = [Did(del, "remove_interface_from_router", port) EXCEPT
                           !.inner = Tail(@),
                           !.pc = enter_loop(Tail(del.inner), "ports", "delete_router")]
        ELSE /\ res' = res
             /\ del' = [Did(del, "remove_interface_from_router", port) EXCEPT
                           !.pc = "failed", !.exc = "NotFound"]
    /\ UNCHANGED <<quotaVars, ensureVars, commandVars, statsVars>>

\* Line 145: network.delete_router(router, ignore_missing=True).
DeleteRouter ==
    /\ del.pc = "delete_router"
    /\ res' = [res EXCEPT !.routers = @ \ {del.current}]
    /\ del' = [Did(del, "delete_router", del.current) EXCEPT
                  !.iter = Tail(@),
                  !.pc = enter_loop(Tail(del.iter), "list_ports", after_routers)]
    /\ UNCHANGED <<quotaVars, ensureVars, commandVars, statsVars>>

\* Line 148: network.networks(project_id).
ListNetworks ==
    /\ del.pc = "list_networks"
    /\ LET items == Listing(NetworkOrder, res.networks) IN
        del' = [del EXCEPT !.iter = items,
                           !.pc = enter_loop(items, "list_subnets", after_networks)]
    /\ UNCHANGED <<res, quotaVars, ensureVars, commandVars, statsVars>>

\* Line 151: client.subnets(project_id, network_id) for the next network.
ListSubnets ==
    /\ del.pc = "list_subnets"
    /\ LET network == Head(del.iter)
           items == Listing(SubnetOrder,
                            {subnet \in res.subnets : NetworkOf(subnet) = network})
       IN  del' = [del EXCEPT !.current = network, !.inner = items,
                              !.pc = enter_loop(items, "subnets", "delete_network")]
    /\ UNCHANGED <<res, quotaVars, ensureVars, commandVars, statsVars>>

\* Line 153: network.delete_subnet(subnet, ignore_missing=True).
DeleteSubnet ==
    /\ del.pc = "subnets"
    /\ LET subnet == Head(del.inner) IN
        /\ res' = [res EXCEPT !.subnets = @ \ {subnet}]
        /\ del' = [Did(del, "delete_subnet", subnet) EXCEPT
                      !.inner = Tail(@),
                      !.pc = enter_loop(Tail(del.inner), "subnets", "delete_network")]
    /\ UNCHANGED <<quotaVars, ensureVars, commandVars, statsVars>>

\* Line 155: network.delete_network(network, ignore_missing=True).
DeleteNetwork ==
    /\ del.pc = "delete_network"
    /\ res' = [res EXCEPT !.networks = @ \ {del.current}]
    /\ del' = [Did(del, "delete_network", del.current) EXCEPT
                  !.iter = Tail(@),
                  !.pc = enter_loop(Tail(del.iter), "list_subnets", after_networks)]
    /\ UNCHANGED <<quotaVars, ensureVars, commandVars, statsVars>>

\* Line 160: security_groups = list(client.security_groups(project_id)).
ListSecurityGroups ==
    /\ del.pc = "list_security_groups"
    /\ LET items == Listing(GroupOrder, res.groups) IN
        del' = [del EXCEPT !.security_groups = items, !.iter = items,
                           !.pc = after_list_security_groups(items)]
    /\ UNCHANGED <<res, quotaVars, ensureVars, commandVars, statsVars>>

\* Line 162: keystone projects.delete(project).
DeleteProjectItself ==
    /\ del.pc = "delete_project"
    /\ res' = [res EXCEPT !.proj = FALSE]
    /\ del' = [Did(del, "delete_project", "project") EXCEPT
                  !.pc = after_delete_project(del.security_groups)]
    /\ UNCHANGED <<quotaVars, ensureVars, commandVars, statsVars>>

\* Line 166: network.delete_security_group(sg, ignore_missing=True).
DeleteSecurityGroup ==
    /\ del.pc = "security_groups"
    /\ LET sg == Head(del.iter) IN
        /\ res' = [res EXCEPT !.groups = @ \ {sg}]
        /\ del' = [Did(del, "delete_security_group", sg) EXCEPT
                      !.iter = Tail(@),
                      !.pc = enter_loop(Tail(del.iter), "security_groups", "done")]
    /\ UNCHANGED <<quotaVars, ensureVars, commandVars, statsVars>>

InitDelete ==
    /\ res \in ResourceStates
    /\ del = DeleteIdle
    /\ topo = NoTopology
    /\ ens = EnsureIdle
    /\ interfered = FALSE
    /\ quota = [p \in Projects |-> [k \in Kinds |-> Unlimited]]
    /\ environ = TRUE
    /\ last = Idle
    /\ tenants = {}
    /\ cmd = NoCommand
    /\ stats = NoStats

NextDelete ==
    \/ DeleteStart \/ DeleteFindProject
    \/ ListServers \/ DeleteServer \/ ListVolumes \/ DeleteVolume
    \/ ListRouters \/ ListPorts \/ RemoveInterface \/ DeleteRouter
    \/ ListNetworks \/ ListSubnets \/ DeleteSubnet \/ DeleteNetwork
    \/ ListSecurityGroups \/ DeleteProjectItself \/ DeleteSecurityGroup

SpecDelete == InitDelete /\ [][NextDelete]_vars

\* ------------------------------------ delete_project, aborted and run again

\* Largest number of runs of delete_project for one name.
MaxRuns == 2

\* The positions of a run that has been entered and has not ended.
Running ==
    {"find_project", "list_servers", "servers", "list_volumes", "volumes",
     "list_routers", "list_ports", "ports", "delete_router", "list_networks",
     "list_subnets", "subnets", "delete_network", "list_security_groups",
     "delete_project", "security_groups"}

\* The run ends where it stands (the process is stopped, or a remote call
\* fails); its locals are lost, what it did to the remote state stays.
DeleteAbort ==
    /\ del.pc \in Running
    /\ del' = [DeleteIdle EXCEPT !.pc = "aborted", !.run = del.run]
    /\ UNCHANGED <<res, quotaVars, ensureVars, commandVars, statsVars>>

\* The operator runs delete_project again with the same name.
DeleteRetry ==
    /\ del.pc = "aborted"
    /\ del.run < MaxRuns
    /\ del' = [DeleteIdle EXCEPT !.pc = "find_project", !.run = del.run + 1]
    /\ UNCHANGED <<res, quotaVars, ensureVars, commandVars, statsVars>>

\* The project to delete exists when the first run begins.
InitDeleteRetry == InitDelete /\ res.proj

NextDeleteRetry == NextDelete \/ DeleteAbort \/ DeleteRetry

SpecDeleteRetry == InitDeleteRetry /\ [][NextDeleteRetry]_vars

\* ------------------------------- delete_project beside another operator

\* Another operator removes one resource of the project: a server, a volume, a
\* router port, a router without ports, a subnet, a network without subnets,
\* or a security group.
OtherRemoves ==
    /\ del.pc \in Running
    /\ \/ \E server \in res.servers : res' = [res EXCEPT !.servers = @ \ {server}]
       \/ \E volume \in res.volumes : res' = [res EXCEPT !.volumes = @ \ {volume}]
       \/ \E port \in res.ports : res' = [res EXCEPT !.ports = @ \ {port}]
       \/ \E router \in res.routers :
             /\ \A port \in res.ports : RouterOf(port) # router
             /\ res' = [res EXCEPT !.routers = @ \ {router}]
       \/ \E subnet \in res.subnets : res' = [res EXCEPT !.subnets = @ \ {subnet}]
       \/ \E network \in res.networks :
             /\ \A subnet \in res.subnets : NetworkOf(subnet) # network
             /\ res' = [res EXCEPT !.networks = @ \ {network}]
       \/ \E sg \in res.groups : res' = [res EXCEPT !.groups = @ \ {sg}]
    /\ UNCHANGED <<del, quotaVars, ensureVars, commandVars, statsVars>>

\* The project to delete exists when the run begins.
InitDeleteRace == InitDelete /\ res.proj

NextDeleteRace == NextDelete \/ OtherRemoves

SpecDeleteRace == InitDeleteRace /\ [][NextDeleteRace]_vars

\* ------------------------------------------ p9-admin project delete

\* Largest number of names on one delete command line.
MaxNames == 3

NameLists == UNION {[1..n -> ProjectNames] : n \in 0..MaxNames}

\* An operator runs the delete command.
Delete ==
    /\ cmd.op = ""
    /\ \E names \in NameLists :
        LET r == delete([tenants |-> tenants, calls |-> <<>>], names)
        IN  /\ tenants' = r.w.tenants
            /\ cmd' = [op |-> "delete", names |-> names, pre |-> tenants,
                       exc |-> r.exc, calls |-> r.w.calls]
    /\ UNCHANGED <<stats, quotaVars, ensureVars, deleteVars>>

\* The command's process has ended; the remote state stays.
DeleteExit ==
    /\ cmd.op = "delete"
    /\ cmd' = NoCommand
    /\ UNCHANGED <<tenants, stats, quotaVars, ensureVars, deleteVars>>

InitDeleteCli ==
    /\ tenants \in SUBSET Projects
    /\ cmd = NoCommand
    /\ stats = NoStats
    /\ quota = [p \in Projects |-> [k \in Kinds |-> Unlimited]]
    /\ environ = TRUE
    /\ last = Idle
    /\ topo = NoTopology
    /\ ens = EnsureIdle
    /\ interfered = FALSE
    /\ res = NoResources
    /\ del = DeleteIdle

NextDeleteCli == Delete \/ DeleteExit

SpecDeleteCli == InitDeleteCli /\ [][NextDeleteCli]_vars

\* ------------------------------------------------------------ get_stats

\* Largest numbers of servers and of volumes of a project, largest volume size.
MaxServers == 2
MaxVolumes == 2
MaxSize == 2

ServerLists == UNION {[1..n -> [power_state : PowerStates]] : n \in 0..MaxServers}
VolumeLists ==
    UNION {[1..n -> [size : 1..MaxSize, status : VolumeStatuses]] : n \in 0..MaxVolumes}

\* A caller asks for the statistics of a project.
GetStats ==
    /\ stats.op = ""
    /\ \E servers \in ServerLists, volumes \in VolumeLists, vol_endpoint \in BOOLEAN :
        stats' = [op |-> "get_stats", servers |-> servers, volumes |-> volumes,
                  vol_endpoint |-> vol_endpoint,
                  ret |-> get_stats(servers, volumes, vol_endpoint)]
    /\ UNCHANGED <<tenants, cmd, quotaVars, ensureVars, deleteVars>>

\* The call has returned.
StatsReturn ==
    /\ stats.op = "get_stats"
    /\ stats' = NoStats
    /\ UNCHANGED <<tenants, cmd, quotaVars, ensureVars, deleteVars>>

InitStats ==
    /\ stats = NoStats
    /\ tenants = {}
    /\ cmd = NoCommand
    /\ quota = [p \in Projects |-> [k \in Kinds |-> Unlimited]]
    /\ environ = TRUE
    /\ last = Idle
    /\ topo = NoTopology
    /\ ens = EnsureIdle
    /\ interfered = FALSE
    /\ res = NoResources
    /\ del = DeleteIdle

NextStats == GetStats \/ StatsReturn

SpecStats == InitStats /\ [][NextStats]_vars

\* ----------------------------------------------------------------------
\* Properties of the quota reconciler (SpecReconcile)
\* ----------------------------------------------------------------------

\* The last operation was verified_apply_quota on an integer text and a known kind.
IsReconcile ==
    /\ last.op = "verified_apply_quota"
    /\ IsIntText(last.value)
    /\ last.name \in Kinds

\* The current value C before the call and the requested value R.
CurrentValue == last.pre[last.project][last.name]
RequestedValue == ParseInt(last.value)

HasPut(project, name, value) ==
    \E i \in 1..Len(last.calls) : last.calls[i] = Call("PUT quota", project, name, value)

NoPut == \A i \in 1..Len(last.calls) : last.calls[i].op # "PUT quota"

\* The call wrote R to the remote quota set, and nothing else.
WroteRequested ==
    /\ HasPut(last.project, last.name, RequestedValue)
    /\ quota = [last.pre EXCEPT ![last.project][last.name] = RequestedValue]
    /\ last.exc = ""

WroteNothing == NoPut /\ quota = last.pre

Refused == last.exc = "RequiresForceError" /\ WroteNothing

DidNothing == last.exc = "" /\ last.ret = "None" /\ WroteNothing

\* C1 as stated: without force the call writes R iff (R = -1 or R > C), refuses
\* iff (R < C and R # -1), and does nothing iff R = C.
C1_AsStated ==
    (IsReconcile /\ ~last.force) =>
        /\ WroteRequested <=> (RequestedValue = Unlimited \/ RequestedValue > CurrentValue)
        /\ Refused <=> (RequestedValue < CurrentValue /\ RequestedValue # Unlimited)
        /\ DidNothing <=> (RequestedValue = CurrentValue)

\* C1 amended: without force the call writes R iff R # C and (R = -1 or R > C),
\* refuses (writing nothing) iff (R < C and R # -1), and does nothing (returns
\* None, writing nothing) iff R = C.
C1_NonForcedReconcile ==
    (IsReconcile /\ ~last.force) =>
        /\ WroteRequested <=>
              (RequestedValue # CurrentValue
                  /\ (RequestedValue = Unlimited \/ RequestedValue > CurrentValue))
        /\ Refused <=> (RequestedValue < CurrentValue /\ RequestedValue # Unlimited)
        /\ DidNothing <=> (RequestedValue = CurrentValue)
        /\ WroteRequested \/ Refused \/ DidNothing

\* C1 witness: a non-forced request for -1 on a quota that is already -1 returned
\* None and wrote nothing.
C1_Witness ==
    /\ IsReconcile /\ ~last.force
    /\ RequestedValue = Unlimited /\ CurrentValue = Unlimited
    /\ DidNothing

\* C2: with force the call never refuses: it writes R whenever R # C (also when
\* R < C) and writes nothing when R = C.
C2_ForcedReconcile ==
    (IsReconcile /\ last.force) =>
        /\ ~Refused /\ last.exc = ""
        /\ (RequestedValue # CurrentValue) => WroteRequested
        /\ (RequestedValue = CurrentValue) => DidNothing

\* C2 witness: a forced request lowered a finite quota to a smaller finite value.
C2_Witness ==
    /\ IsReconcile /\ last.force
    /\ RequestedValue < CurrentValue /\ RequestedValue >= 0
    /\ WroteRequested

\* The last operation applied a defaults mapping of quota kinds to integers.
IsDefaults ==
    /\ last.op = "verified_apply_quota_defaults"
    /\ \A i \in 1..Len(last.config) :
          last.config[i].key \in Kinds /\ IsIntText(last.config[i].value)

DefaultOf(i) == ParseInt(last.config[i].value)
CurrentOf(i) == last.pre[last.project][last.config[i].key]

\* The reconcile of entry i of the mapping is refused.
RefusedEntry(i) == DefaultOf(i) < CurrentOf(i) /\ DefaultOf(i) # Unlimited

\* C5: when the reconcile of one kind of the defaults mapping is refused, every
\* other kind of the mapping whose default is -1 or greater than its current
\* value ends with the default value, wherever the refused kind stands.
C5_DefaultsSurviveRefusal ==
    IsDefaults =>
        \A i \in 1..Len(last.config) :
            RefusedEntry(i) =>
                /\ last.exc = ""
                /\ \A j \in 1..Len(last.config) :
                      (j # i /\ (DefaultOf(j) = Unlimited \/ DefaultOf(j) > CurrentOf(j)))
                          => quota[last.project][last.config[j].key] = DefaultOf(j)

\* C5 witness: the first kind of the mapping was refused and the second, a finite
\* raise, was applied.
C5_Witness ==
    /\ IsDefaults
    /\ Len(last.config) = 2
    /\ RefusedEntry(1)
    /\ DefaultOf(2) > CurrentOf(2) /\ CurrentOf(2) # Unlimited
    /\ quota[last.project][last.config[2].key] = DefaultOf(2)
    /\ quota[last.project][last.config[1].key] = CurrentOf(1)

\* ----------------------------------------------------------------------
\* Properties of the command handlers (SpecCli)
\* ----------------------------------------------------------------------

IsCommand(op) == last.op = op

\* The command issued a quota read for project p: p was processed.
Processed(p) ==
    \E i \in 1..Len(last.calls) :
        last.calls[i].op = "GET quota" /\ last.calls[i].project = p

\* C6 as stated: in apply-quota-all (single-quota flow and --defaults flow) a
\* failure while processing one project does not stop the loop: once the loop
\* has started on some project, every listed project is processed.
C6_AsStated ==
    (IsCommand("apply-quota-all") /\ \E p \in Projects : Processed(p)) =>
        \A i \in 1..Len(ProjectList) : Processed(ProjectList[i])

\* C7 as stated: apply-quota-all with --force, a known kind and a valid value
\* leaves every project with the requested value, also where the current value
\* was higher.
C7_AsStated ==
    (/\ IsCommand("apply-quota-all") /\ last.force /\ ~last.defaults /\ environ
     /\ validators_quota_name(last.name)
     /\ validators_quota_value(last.name, last.value)) =>
        \A p \in Projects : quota[p][last.name] = ParseInt(last.value)

\* C9 as stated: a quota command run without OS_NOVA_URL ends with the fatal
\* configuration error before any remote call is issued.
C9_AsStated ==
    (last.op \in {"apply-quota-all", "apply-quota", "get-quota"} /\ ~environ) =>
        last.exc = "ConfigurationError" /\ last.calls = <<>>

\* The request of the last quota-applying command is invalid: an unrecognized
\* kind name or an invalid value, on the command line or in the defaults mapping.
InvalidRequest ==
    IF last.defaults
    THEN \E i \in 1..Len(last.config) :
            \/ ~validators_quota_name(last.config[i].key)
            \/ ~validators_quota_value(last.config[i].key, last.config[i].value)
    ELSE \/ ~validators_quota_name(last.name)
         \/ ~validators_quota_value(last.name, last.value)

\* C10 as stated: in every quota-applying flow an invalid request is rejected
\* before any remote call: the command issues no remote read or write.
C10_AsStated ==
    (last.op \in {"apply-quota-all", "apply-quota"} /\ environ /\ InvalidRequest) =>
        last.calls = <<>>

\* ----------------------------------------------------------------------
\* Properties of the provisioner (SpecEnsure)
\* ----------------------------------------------------------------------

\* C15 as stated: every stored quota value is -1 or a non-negative integer,
\* whatever verified_apply_quota and verified_apply_quota_defaults calls were
\* made (any requested integer, any force flag).
C15_AsStated ==
    \A p \in Projects, k \in Kinds : quota[p][k] >= Unlimited

\* C18 as stated: a non-forced verified_apply_quota asked for a finite
\* non-negative value while the current value is -1 (unlimited) leaves the
\* quota unlimited.
C18_AsStated ==
    (/\ IsReconcile /\ ~last.force
     /\ CurrentValue = Unlimited /\ RequestedValue >= 0)
        => quota[last.project][last.name] = Unlimited

CreateOps ==
    {"create_project", "create_network", "create_subnet", "create_router",
     "create_security_group", "create_security_group_rule"}

\* The call just ended issued no create call.
NoCreateCall == \A i \in 1..Len(ens.calls) : ens.calls[i] \notin CreateOps

\* The project has network1, subnet0, router0 and the default security group.
StandardResources == topo.net /\ topo.sub /\ topo.rtr # "none" /\ topo.sg

\* A second successful call has just returned, straight after a successful one,
\* and no other operator has touched the project.
TwoCallsInSuccession ==
    /\ ens.pc = "done" /\ ens.n >= 2 /\ ens.prev.done
    /\ ~interfered

\* C3 as stated: two calls in succession, in either mode, return the same
\* project id, the second issues no create call, and afterwards the project has
\* its network1, subnet0, router0 and default security group.
C3_AsStated ==
    TwoCallsInSuccession =>
        /\ ens.ret = ens.prev.ret
        /\ NoCreateCall
        /\ StandardResources

\* C3 amended: two calls in succession return the same project id; a second
\* call in shallow mode issues no create call; and when the first call created
\* the project or ran in deep mode, the second call issues no create call in
\* either mode and afterwards the project has its network1, subnet0, router0
\* and default security group.
C3_EnsureTwice ==
    TwoCallsInSuccession =>
        /\ ens.ret = ens.prev.ret
        /\ ens.ret # NoProject
        /\ ens.assume_complete => NoCreateCall
        /\ (ens.prev.new_project \/ ~ens.prev.assume_complete) =>
              (NoCreateCall /\ StandardResources)

\* C3 witness: the first call created the project, the second ran in deep mode,
\* found everything and returned the same id.
C3_Witness ==
    /\ TwoCallsInSuccession
    /\ ens.prev.new_project /\ ~ens.assume_complete
    /\ ens.ret = IdEnsure /\ ens.prev.ret = IdEnsure
    /\ Len(ens.calls) = 6 /\ NoCreateCall

\* C8 as stated: a resource created by another operator between a find and
\* the create that follows it is taken as success: ensure_project does not fail.
C8_AsStated == ens.pc # "failed"

\* ----------------------------------------------------------------------
\* Properties of the decommissioner (SpecDelete)
\* ----------------------------------------------------------------------

\* The place of a call in the order servers, volumes, routers (with their
\* ports), networks (with their subnets), project, security groups.
Phase(call) ==
    CASE call.op = "delete_server" -> 1
      [] call.op = "delete_volume" -> 2
      [] call.op \in {"remove_interface_from_router", "delete_router"} -> 3
      [] call.op \in {"delete_subnet", "delete_network"} -> 4
      [] call.op = "delete_project" -> 5
      [] call.op = "delete_security_group" -> 6

IdsOf(op) == {del.calls[i].id : i \in {j \in 1..Len(del.calls) : del.calls[j].op = op}}

\* C4: the calls of a run come in the order: server deletes, volume deletes, per
\* router its port detaches then its delete, per network its subnet deletes then
\* its delete, the project delete, the security-group deletes; no group is
\* deleted before the project, and the groups deleted are those listed before it.
C4_DeletionOrder ==
    LET c == del.calls
        n == Len(del.calls)
    IN  /\ \A i, j \in 1..n : i < j => Phase(c[i]) <= Phase(c[j])
        /\ \A i \in 1..n :
              c[i].op = "remove_interface_from_router" =>
                  \/ i = n /\ del.pc \in {"ports", "delete_router"}
                  \/ /\ i < n
                     /\ \/ /\ c[i + 1].op = "remove_interface_from_router"
                           /\ RouterOf(c[i + 1].id) = RouterOf(c[i].id)
                        \/ c[i + 1] = [op |-> "delete_router", id |-> RouterOf(c[i].id)]
        /\ \A i \in 1..n :
              c[i].op = "delete_subnet" =>
                  \/ i = n /\ del.pc \in {"subnets", "delete_network"}
                  \/ /\ i < n
                     /\ \/ /\ c[i + 1].op = "delete_subnet"
                           /\ NetworkOf(c[i + 1].id) = NetworkOf(c[i].id)
                        \/ c[i + 1] = [op |-> "delete_network", id |-> NetworkOf(c[i].id)]
        /\ \A j \in 1..n :
              c[j].op = "delete_security_group" =>
                  /\ \E i \in 1..(j - 1) : c[i].op = "delete_project"
                  /\ c[j].id \in Range(del.security_groups)
        /\ del.pc = "done" =>
              /\ IdsOf("delete_security_group") = Range(del.security_groups)
              /\ Cardinality({i \in 1..n : c[i].op = "delete_project"}) = 1

\* C4 witness: a run that deleted two servers, a volume, two routers with three
\* ports, two networks with their subnets, the project and two security groups.
C4_Witness ==
    /\ del.pc = "done"
    /\ Len(del.calls) = 15
    /\ Cardinality(IdsOf("delete_security_group")) = 2
    /\ Cardinality(IdsOf("remove_interface_from_router")) = 3

\* C14: the step ensure_project takes in shallow mode when the project exists
\* is its last: it returns that project with projects.find as its only call
\* (no find and no create for network, subnet, router, security group or
\* rule) and the remote state is as it was.
C14_ShallowReturnsAtOnce ==
    [][(/\ ens.pc = "find_project" /\ ens.assume_complete
        /\ topo.proj # NoProject /\ ens' # ens)
          => (/\ ens'.pc = "done" /\ ens'.ret = topo.proj
              /\ ens'.calls = <<"find_project">>
              /\ topo' = topo)]_vars

\* C14 witness: a shallow call has returned a project that has no network.
C14_Witness ==
    /\ ens.pc = "done" /\ ens.assume_complete /\ ens.n = 1
    /\ ens.ret = IdBefore /\ topo.proj = IdBefore
    /\ ens.calls = <<"find_project">>
    /\ ~topo.net /\ ~interfered

\* C19 as stated: once ensure_project in deep mode has returned, whatever the
\* remote state it started from, the project has network1, subnet0 inside it,
\* router0 attached to that subnet, and the default security group with the
\* external-access rule (no other operator having changed anything).
C19_AsStated ==
    (ens.pc = "done" /\ ~ens.assume_complete /\ ~interfered) =>
        /\ topo.proj # NoProject
        /\ topo.net /\ topo.sub
        /\ topo.rtr = "attached"
        /\ topo.sg /\ topo.rule

\* What the project being deleted still owns on the remote platform.
Remaining ==
    res.servers \cup res.volumes \cup res.routers \cup res.ports
        \cup res.subnets \cup res.networks \cup res.groups

\* C12: once delete_project has returned successfully, no server, volume,
\* router, router port, subnet, network or security group of the deleted
\* project remains on the remote platform, and the project itself is gone.
C12_NoOrphans ==
    del.pc = "done" => (Remaining = {} /\ ~res.proj)

\* C12 witness: a run that had resources of every sort to delete has returned.
C12_Witness ==
    /\ del.pc = "done"
    /\ \A op \in {"delete_server", "delete_volume", "remove_interface_from_router",
                   "delete_router", "delete_subnet", "delete_network",
                   "delete_security_group"} : IdsOf(op) # {}
    /\ Remaining = {}

\* C16: delete_project on a project without a volume service endpoint does not
\* fail for it: no volume delete is issued, the run fails only when the project
\* is not found, and when it has returned the routers, networks, security
\* groups and the project itself are gone.
C16_NoVolumeEndpoint ==
    ~res.vol_endpoint =>
        /\ IdsOf("delete_volume") = {}
        /\ del.pc = "failed" => (del.exc = "NotFound" /\ del.calls = <<>>)
        /\ del.pc = "done" =>
              (res.routers = {} /\ res.networks = {} /\ res.groups = {} /\ ~res.proj)

\* C16 witness: without a volume endpoint a run has deleted routers, networks,
\* the project and security groups, and has returned.
C16_Witness ==
    /\ ~res.vol_endpoint /\ del.pc = "done"
    /\ \A op \in {"delete_server", "delete_router", "delete_network",
                   "delete_project", "delete_security_group"} : IdsOf(op) # {}

\* C20 as stated: a run of delete_project made after an earlier run for the
\* same name was aborted, at whatever step, does not fail, and when it has
\* returned nothing of the project is left.
C20_AsStated ==
    del.run > 1 =>
        /\ del.pc # "failed"
        /\ del.pc = "done" => (Remaining = {} /\ ~res.proj)

\* C21 as stated: when another operator removes a sub-resource of the project
\* after delete_project has listed it and before delete_project deletes or
\* detaches it, the 'not found' is swallowed: a run on a project that exists
\* never ends in NotFound.
C21_AsStated ==
    del.pc = "failed" => del.exc # "NotFound"

\* ----------------------------------------------------------------------
\* Properties of the delete command (SpecDeleteCli)
\* ----------------------------------------------------------------------

\* C11 as stated: when the delete command is given several names and one of
\* them matches no project, every other named project that existed is gone once
\* the command has ended, wherever the unmatched name stands in the list.
C11_AsStated ==
    (/\ cmd.op = "delete"
     /\ \E j \in 1..Len(cmd.names) : cmd.names[j] \notin cmd.pre)
        => \A i \in 1..Len(cmd.names) :
              cmd.names[i] \in cmd.pre => cmd.names[i] \notin tenants

\* ----------------------------------------------------------------------
\* Properties of get_stats (SpecStats)
\* ----------------------------------------------------------------------

\* The positions of a list whose element passes a test, and the sizes added up
\* over a set of positions.
ServersOn == {i \in 1..Len(stats.servers) : stats.servers[i].power_state > 0}
VolumesInUse == {i \in 1..Len(stats.volumes) : stats.volumes[i].status = "in-use"}

RECURSIVE SizeOver(_)
SizeOver(positions) ==
    IF positions = {} THEN 0
    ELSE LET i == CHOOSE i \in positions : TRUE
         IN  stats.volumes[i].size + SizeOver(positions \ {i})

\* C17: get_stats returns (servers, servers with power_state > 0, volumes, sum
\* of volume sizes, volumes in use, sum of the sizes of volumes in use); without
\* a volume endpoint the four volume figures are 0 and the call returns.
C17_GetStats ==
    stats.op = "get_stats" =>
        stats.ret =
            IF stats.vol_endpoint
            THEN <<Len(stats.servers), Cardinality(ServersOn),
                   Len(stats.volumes), SizeOver(1..Len(stats.volumes)),
                   Cardinality(VolumesInUse), SizeOver(VolumesInUse)>>
            ELSE <<Len(stats.servers), Cardinality(ServersOn), 0, 0, 0, 0>>

\* C17 witness: statistics of a project with a server on and one off, a volume
\* in use and one not.
C17_Witness ==
    /\ stats.op = "get_stats" /\ stats.vol_endpoint
    /\ Len(stats.servers) = 2 /\ Cardinality(ServersOn) = 1
    /\ Len(stats.volumes) = 2 /\ Cardinality(VolumesInUse) = 1
    /\ stats.ret[4] > stats.ret[6] /\ stats.ret[6] > 0

====
